---- MODULE Spec2Model ----
(***************************************************************************)
(* Merkle-Patricia-Trie proof verification of src/state_root/node.rs:      *)
(* NodeData::new (the decoder of one RLP-encoded trie node) and            *)
(* Node::load_proof (the recursive descent over a proof).                  *)
(*                                                                         *)
(* Byte strings are sequences of numbers 0..255.  A Result is modelled by  *)
(* a record with field ok; an Err carries the message of the source.       *)
(***************************************************************************)
EXTENDS Integers, Sequences, FiniteSets, TLC

VARIABLES root_hash, node, key, value, proof, result, pre, trace, raw, decoded

vars == <<root_hash, node, key, value, proof, result, pre, trace, raw, decoded>>

(***************************************************************************)
(* Bounds of the model.                                                    *)
(***************************************************************************)
\* longest proof handed to load_proof
MaxProofLen == 3
\* the decoder is fed lists of 0 .. 17 + ExtraItems items
ExtraItems == 1

(***************************************************************************)
(* Byte-string helpers.                                                    *)
(***************************************************************************)
HashLen == 32

\* n copies of the byte b
Rep(n, b) == [i \in 1..n |-> b]

\* the concatenation of a sequence of byte strings
Concat(ss) ==
    LET cat[i \in 0..Len(ss)] == IF i = 0 THEN <<>> ELSE cat[i - 1] \o ss[i]
    IN  cat[Len(ss)]

RECURSIVE BigEndian(_)
\* the value of a big-endian length field
BigEndian(bs) ==
    IF bs = <<>> THEN 0 ELSE BigEndian(SubSeq(bs, 1, Len(bs) - 1)) * 256 + bs[Len(bs)]

\* the big-endian bytes of a length below 65536, without leading zeroes
ToBigEndian(n) == IF n < 256 THEN <<n>> ELSE <<n \div 256, n % 256>>

(***************************************************************************)
(* keccak256 (ethers_core::utils).  The digest function itself is outside  *)
(* the repository.  load_proof uses it only as a deterministic map from a  *)
(* byte string to 32 bytes, and that is what the stand-in below is: the    *)
(* first three bytes carry a weighted checksum of the input, the rest is   *)
(* derived from it.  The one digest the source names, the root of the      *)
(* empty trie (keccak256 of the RLP empty string 0x80), is kept.           *)
(***************************************************************************)
EMPTY_ROOT ==
    <<86, 232, 31, 23, 27, 204, 85, 166, 255, 131, 69, 230, 146, 192, 248, 110,
      91, 72, 224, 27, 153, 108, 173, 192, 1, 98, 47, 181, 227, 99, 180, 33>>

EMPTY_VALUE == <<0>>

RECURSIVE Checksum(_, _, _)
\* a position-weighted sum of the bytes lo..hi of bs, by halves
Checksum(bs, lo, hi) ==
    IF lo > hi THEN 0
    ELSE IF lo = hi THEN ((bs[lo] + 1) * (((lo * lo + 7 * lo) % 251) + 1)) % 16777213
    ELSE LET mid == (lo + hi) \div 2
         IN  (Checksum(bs, lo, mid) + Checksum(bs, mid + 1, hi)) % 16777213

Digest(bs) ==
    IF bs = <<128>> THEN EMPTY_ROOT
    ELSE LET d == (Checksum(bs, 1, Len(bs)) + 65537 * Len(bs)) % 16777213
         IN  [i \in 1..HashLen |->
                 IF i = 1 THEN d \div 65536
                 ELSE IF i = 2 THEN (d \div 256) % 256
                 ELSE IF i = 3 THEN d % 256
                 ELSE ((d % 256) * i + i) % 256]

(***************************************************************************)
(* The inputs: RLP encodings in the wire format of the fixtures of the     *)
(* tests (a string of one byte below 0x80 is itself, a short string has    *)
(* the header 0x80 + length, a list 0xc0 + length or 0xf8 and a length     *)
(* byte).                                                                  *)
(***************************************************************************)
EncodeItem(d) ==
    IF Len(d) = 1 /\ d[1] < 128 THEN d
    ELSE IF Len(d) < 56 THEN <<128 + Len(d)>> \o d
    ELSE <<183 + Len(ToBigEndian(Len(d)))>> \o ToBigEndian(Len(d)) \o d

EncodeList(items) ==
    LET payload == Concat([i \in 1..Len(items) |-> EncodeItem(items[i])])
    IN  IF Len(payload) < 56 THEN <<192 + Len(payload)>> \o payload
        ELSE <<247 + Len(ToBigEndian(Len(payload)))>> \o ToBigEndian(Len(payload)) \o payload

\* the leaf of tests::test_node_data_new_leaf_node_1
FixtureLeaf ==
    <<227, 161, 32, 41, 13, 236, 217, 84, 139, 98, 168, 214, 3, 69, 169, 136, 56,
      111, 200, 75, 166, 188, 149, 72, 64, 8, 246, 54, 47, 147, 22, 14, 243, 229,
      99, 8>>

FixtureLeafKey ==
    <<41, 13, 236, 217, 84, 139, 98, 168, 214, 3, 69, 169, 136, 56, 111, 200, 75,
      166, 188, 149, 72, 64, 8, 246, 54, 47, 147, 22, 14, 243, 229, 99>>

\* the branch of tests::test_node_data_new_branch_1
FixtureBranch ==
    <<248, 81, 160, 233, 113, 80, 195, 237, 34, 26, 111, 70, 189, 205, 68, 232,
      162, 212, 72, 37, 188, 120, 31, 164, 143, 121, 126, 157, 242, 248, 206, 255,
      82, 164, 62, 128, 128, 128, 128, 128, 128, 128, 128, 128, 128, 128, 160,
      148, 135, 200, 231, 242, 132, 105, 185, 247, 44, 214, 190, 9, 75, 85, 92,
      56, 130, 192, 101, 63, 17, 178, 8, 255, 118, 191, 140, 174, 229, 4, 50, 128,
      128, 128, 128>>

FixtureSlot0 ==
    <<233, 113, 80, 195, 237, 34, 26, 111, 70, 189, 205, 68, 232, 162, 212, 72,
      37, 188, 120, 31, 164, 143, 121, 126, 157, 242, 248, 206, 255, 82, 164, 62>>

FixtureSlot12 ==
    <<148, 135, 200, 231, 242, 132, 105, 185, 247, 44, 214, 190, 9, 75, 85, 92,
      56, 130, 192, 101, 63, 17, 178, 8, 255, 118, 191, 140, 174, 229, 4, 50>>

\* the second proof entry of tests::test_node_new_two_element_1
FixtureLeaf2 ==
    <<226, 160, 51, 107, 99, 132, 181, 236, 167, 145, 198, 39, 97, 21, 45, 12,
      121, 187, 6, 4, 193, 4, 165, 251, 111, 78, 176, 112, 63, 49, 84, 187, 61,
      176, 9>>

FixtureLeaf2Key ==
    <<3, 107, 99, 132, 181, 236, 167, 145, 198, 39, 97, 21, 45, 12, 121, 187, 6,
      4, 193, 4, 165, 251, 111, 78, 176, 112, 63, 49, 84, 187, 61, 176>>

\* the keys and values a caller claims
K1 == <<41>>

K2 == <<54>>

V1 == <<8>>

Keys == {K1, K2}

Values == {EMPTY_VALUE, V1}

\* prefixed paths: flag nibble 0 extension/even, 1 extension/odd, 2 leaf/even,
\* 3 leaf/odd
Prefixed(flag, path) ==
    IF flag % 2 = 1 THEN <<(flag * 16) + (path[1] % 16)>> \o Tail(path)
    ELSE <<flag * 16>> \o path

\* the leaf K1 -> V1
EntryL == EncodeList(<<Prefixed(2, K1), V1>>)

\* the leaf K2 -> EMPTY_VALUE
EntryL2 == EncodeList(<<Prefixed(2, K2), EMPTY_VALUE>>)

\* an extension over the path K1 to the leaf K1 -> V1
EntryX == EncodeList(<<Prefixed(0, K1), Digest(EntryL)>>)

\* a branch: slot 0 is the leaf K1 -> V1, slot 5 the leaf K2 -> EMPTY_VALUE,
\* slot 12 the extension
EntryB ==
    EncodeList([i \in 1..17 |->
        IF i = 1 THEN Digest(EntryL)
        ELSE IF i = 6 THEN Digest(EntryL2)
        ELSE IF i = 13 THEN Digest(EntryX) ELSE <<>>])

\* an extension over the path K2 to the branch
EntryX2 == EncodeList(<<Prefixed(0, K2), Digest(EntryB)>>)

\* a list of three items: no trie node
EntryM == EncodeList(<<Prefixed(2, K1), V1, V1>>)

\* a string where a list is expected: no RLP list at all
EntryS == EncodeItem(Prefixed(2, K1) \o V1)

Entries == {EntryL, EntryL2, EntryX, EntryX2, EntryB, EntryM, EntryS}

\* keccak256: the digests of the entries are tabulated once
Digests == [e \in Entries |-> Digest(e)]

keccak256(bs) == IF bs \in Entries THEN Digests[bs] ELSE Digest(bs)

(***************************************************************************)
(* The RLP reader (ethers_core::utils::rlp::Rlp), as far as NodeData::new  *)
(* uses it: item_count, at(i) and data.                                    *)
(***************************************************************************)
\* PayloadInfo of the item that starts bs: header length and value length
PayloadInfo(bs) ==
    IF bs = <<>> THEN [ok |-> FALSE]
    ELSE LET b == bs[1]
             long(base) ==
                 LET ll == b - base
                 IN  IF Len(bs) < 1 + ll THEN [ok |-> FALSE]
                     ELSE IF bs[2] = 0 THEN [ok |-> FALSE]
                     \* a length of three bytes or more exceeds every input here
                     ELSE IF ll > 2 THEN [ok |-> FALSE]
                     ELSE [ok |-> TRUE, header_len |-> 1 + ll,
                           value_len |-> BigEndian(SubSeq(bs, 2, 1 + ll))]
             pi == IF b < 128 THEN [ok |-> TRUE, header_len |-> 0, value_len |-> 1]
                   ELSE IF b < 184 THEN [ok |-> TRUE, header_len |-> 1, value_len |-> b - 128]
                   ELSE IF b < 192 THEN long(183)
                   ELSE IF b < 248 THEN [ok |-> TRUE, header_len |-> 1, value_len |-> b - 192]
                   ELSE long(247)
         IN  IF pi.ok /\ pi.header_len + pi.value_len > Len(bs) THEN [ok |-> FALSE] ELSE pi

\* Rlp::is_list
IsList(bs) == bs # <<>> /\ bs[1] >= 192

\* the items of the list bs, each with its header, up to the first one that
\* does not parse (Rlp::iter stops there); none when bs is no well-formed list
Items(bs) ==
    LET pi == PayloadInfo(bs)
        end == pi.header_len + pi.value_len
        split[pos \in 1..(Len(bs) + 1)] ==
            LET ipi == PayloadInfo(SubSeq(bs, pos, end))
                n == ipi.header_len + ipi.value_len
            IN  IF ~ipi.ok THEN <<>>
                ELSE <<SubSeq(bs, pos, pos + n - 1)>> \o split[pos + n]
    IN  IF ~IsList(bs) \/ ~pi.ok THEN <<>> ELSE split[pi.header_len + 1]

\* Rlp::item_count: Err(RlpExpectedToBeList) on anything but a list
ItemCount(bs) ==
    IF ~IsList(bs) THEN [ok |-> FALSE, err |-> "RlpExpectedToBeList"]
    ELSE [ok |-> TRUE, val |-> Len(Items(bs))]

\* Rlp::data of one item: the bytes after its header
Data(item) ==
    LET pi == PayloadInfo(item)
    IN  SubSeq(item, pi.header_len + 1, pi.header_len + pi.value_len)

\* rlp.at(i)?.data()? for the 0-based index i of the source, on the items of
\* the list
AtData(items, i) == Data(items[i + 1])

(***************************************************************************)
(* The hex-prefix key codec (super::key::Key).  The first nibble of the    *)
(* prefixed path holds the flags: its low bit the parity of the path, the  *)
(* next bit the terminator.  The bare path drops the flag nibble: the      *)
(* whole first byte of an even path, the high nibble of an odd one.        *)
(***************************************************************************)
\* Key::from_bytes_with_prefix: the prefixed path and its terminator flag
from_bytes_with_prefix(bs) ==
    [key |-> bs, terminator |-> ((bs[1] \div 16) \div 2) % 2 = 1]

\* Key::without_prefix
without_prefix(k) ==
    IF (k[1] \div 16) % 2 = 1 THEN <<k[1] % 16>> \o Tail(k) ELSE Tail(k)

(***************************************************************************)
(* Node and NodeData.                                                      *)
(***************************************************************************)
Unknown == [tag |-> "Unknown"]

Leaf(k, v) == [tag |-> "Leaf", key |-> k, value |-> v]

Branch(arr) == [tag |-> "Branch", arr |-> arr]

Extension(k, n) == [tag |-> "Extension", key |-> k, node |-> n]

\* Option<Node>::None of a branch slot
None == [tag |-> "None"]

\* Node_new building a node that takes keys as they are
Node_new_raw_keys(root) == [hash |-> root, should_hash_keys |-> FALSE, data |-> Unknown]

\* Node::new
Node_new(root) == [hash |-> root, should_hash_keys |-> TRUE, data |-> Unknown]

Ok(v) == [ok |-> TRUE, val |-> v]

Err(msg) == [ok |-> FALSE, err |-> msg]

\* BranchSlot with a pointer longer than a hash cut to its first 32 bytes
BranchSlot_truncating(v) ==
    IF Len(v) >= 32 THEN Ok(Node_new(SubSeq(v, 1, 32)))
    ELSE IF Len(v) = 0 THEN Ok(None)
    ELSE Err("invalid hash length in Extension")

\* one slot of a branch, from the data of its item
BranchSlot(v) ==
    IF Len(v) = 32 THEN Ok(Node_new(v))
    ELSE IF Len(v) = 0 THEN Ok(None)
    ELSE Err("invalid hash length in Extension")

\* the 2-item arm of NodeData::new, on the decoded path, val_1 and the hash
NodeData_new_2_of(kt, val_1, hash) ==
    IF kt.terminator THEN Ok(Leaf(without_prefix(kt.key), val_1))
    ELSE IF Len(hash) # 32 THEN Err("invalid hash length in Extension")
    ELSE Ok(Extension(without_prefix(kt.key), Node_new(hash)))

NodeData_new_2(items) ==
    NodeData_new_2_of(from_bytes_with_prefix(AtData(items, 0)), AtData(items, 1),
                      AtData(items, 1))

\* the 17-item arm of NodeData::new: a bad slot ends the loop with its error
NodeData_new_17(items) ==
    LET slots == [i \in 1..17 |-> BranchSlot(AtData(items, i - 1))]
    IN  IF \E i \in 1..17 : ~slots[i].ok
        THEN Err("invalid hash length in Extension")
        ELSE Ok(Branch([i \in 1..17 |-> slots[i].val]))

\* NodeData_match taking every list of 17 items or more for a branch
NodeData_match_atleast17(num_items, items) ==
    IF ~num_items.ok THEN Err(num_items.err)
    ELSE IF num_items.val = 2 THEN NodeData_new_2(items)
    ELSE IF num_items.val >= 17 THEN NodeData_new_17(items)
    ELSE Err("Unknown num_items")

\* the match on num_items of NodeData::new
NodeData_match(num_items, items) ==
    IF ~num_items.ok THEN Err(num_items.err)
    ELSE IF num_items.val = 2 THEN NodeData_new_2(items)
    ELSE IF num_items.val = 17 THEN NodeData_new_17(items)
    ELSE Err("Unknown num_items")

NodeData_decode(rlp) == NodeData_match(ItemCount(rlp), Items(rlp))

\* NodeData::new: the decodings of the entries are tabulated once
Decodings == [e \in Entries |-> NodeData_decode(e)]

NodeData_new(rlp) == IF rlp \in Entries THEN Decodings[rlp] ELSE NodeData_decode(rlp)

(***************************************************************************)
(* Node::load_proof.  The operator gives the Result, the node as the call  *)
(* leaves it, and the recursive calls it made, in order: each with its     *)
(* nesting depth, the hash of the node it ran on and its arguments.        *)
(***************************************************************************)
Unit == Ok("()")

Return(res, self, calls) == [res |-> res, node |-> self, calls |-> calls]

Call(depth, self, key_, value_, proof_) ==
    [depth |-> depth, hash |-> self.hash, key |-> key_, value |-> value_,
     proof |-> proof_]

\* MatchingChildren without the comparison of the hashes
MatchingChildren_populated(arr, next_hash) ==
    LET sel[i \in 0..17] ==
            IF i = 0 THEN <<>>
            ELSE IF arr[i] # None THEN sel[i - 1] \o <<arr[i]>>
                 ELSE sel[i - 1]
    IN  sel[17]

\* the populated slots of a branch whose hash is next_hash, in slot order
MatchingChildren(arr, next_hash) ==
    LET sel[i \in 0..17] ==
            IF i = 0 THEN <<>>
            ELSE IF arr[i] # None /\ arr[i].hash = next_hash
                 THEN sel[i - 1] \o <<arr[i]>>
                 ELSE sel[i - 1]
    IN  sel[17]

WithKey(children, key_) ==
    [i \in 1..Len(children) |-> [node |-> children[i], key |-> key_]]

\* the nodes a call with more than one entry descends into, each with the key
\* handed down: the child of an Extension with the key of the Extension, the
\* matching children of a Branch with the key of the caller
Targets(data, key_, child_proof) ==
    IF data.tag = "Extension" THEN <<[node |-> data.node, key |-> data.key]>>
    ELSE IF data.tag = "Branch"
    THEN WithKey(MatchingChildren(data.arr, keccak256(child_proof[1])), key_)
    ELSE <<>>

\* empty_proof without the check of the value
empty_proof_any_value(self, value_) ==
    IF self.hash # EMPTY_ROOT
    THEN Return(Err("Root is not empty, hence some proof is needed"), self, <<>>)
    ELSE Return(Unit, self, <<>>)

\* if proof.len() == 0: only the empty root needs no proof, and it holds the
\* empty value only
empty_proof(self, value_) ==
    IF self.hash # EMPTY_ROOT
    THEN Return(Err("Root is not empty, hence some proof is needed"), self, <<>>)
    ELSE IF value_ # EMPTY_VALUE
    THEN Return(Err("Value should be empty, since root is empty"), self, <<>>)
    ELSE Return(Unit, self, <<>>)

\* leaf_check comparing the path of an Extension with the key as well
leaf_check_any_path(fill, val, key_, value_) ==
    IF fill /\ val.tag \in {"Leaf", "Extension"} /\ val.key # key_
    THEN Err("key in leaf does not match input")
    ELSE IF fill /\ val.tag = "Leaf" /\ val.value # value_
    THEN Err("value in leaf does not match input")
    ELSE Unit

\* the checks on a Leaf that has just been placed
leaf_check(fill, val, key_, value_) ==
    IF fill /\ val.tag = "Leaf" /\ val.key # key_
    THEN Err("key in leaf does not match input")
    ELSE IF fill /\ val.tag = "Leaf" /\ val.value # value_
    THEN Err("value in leaf does not match input")
    ELSE Unit

\* the node once the decoded entry is placed: only an Unknown node takes it
place(self, val) == IF self.data = Unknown THEN [self EXCEPT !.data = val] ELSE self

\* collect writing the child an Extension descended into back into the node
collect_writing_back(self, targets, value_, child_proof, depth, rs) ==
    LET bad == {t \in 1..Len(targets) : ~rs[t].res.ok}
        last == IF bad = {} THEN Len(targets)
                ELSE CHOOSE t \in bad : \A u \in bad : t <= u
    IN  Return(IF bad = {} THEN Unit ELSE rs[last].res,
               IF self.data.tag = "Extension"
               THEN [self EXCEPT !.data.node = rs[1].node] ELSE self,
               Concat([t \in 1..last |->
                   <<Call(depth + 1, targets[t].node, targets[t].key, value_,
                          child_proof)>> \o rs[t].calls]))

\* collect emptying the node when the descent fails
collect_rolling_back(self, targets, value_, child_proof, depth, rs) ==
    LET bad == {t \in 1..Len(targets) : ~rs[t].res.ok}
        last == IF bad = {} THEN Len(targets)
                ELSE CHOOSE t \in bad : \A u \in bad : t <= u
    IN  Return(IF bad = {} THEN Unit ELSE rs[last].res,
               IF bad = {} THEN self ELSE [self EXCEPT !.data = Unknown],
               Concat([t \in 1..last |->
                   <<Call(depth + 1, targets[t].node, targets[t].key, value_,
                          child_proof)>> \o rs[t].calls]))

\* collect leaving the caller with the node the descent ended on
collect_child(self, targets, value_, child_proof, depth, rs) ==
    LET bad == {t \in 1..Len(targets) : ~rs[t].res.ok}
        last == IF bad = {} THEN Len(targets)
                ELSE CHOOSE t \in bad : \A u \in bad : t <= u
    IN  Return(IF bad = {} THEN Unit ELSE rs[last].res,
               IF last >= 1 THEN rs[last].node ELSE self,
               Concat([t \in 1..last |->
                   <<Call(depth + 1, targets[t].node, targets[t].key, value_,
                          child_proof)>> \o rs[t].calls]))

\* the outcome of the descent, rs[t] being what the call on targets[t] gave:
\* the targets are descended into in order and the first error ends the call
collect(self, targets, value_, child_proof, depth, rs) ==
    LET bad == {t \in 1..Len(targets) : ~rs[t].res.ok}
        last == IF bad = {} THEN Len(targets)
                ELSE CHOOSE t \in bad : \A u \in bad : t <= u
    IN  Return(IF bad = {} THEN Unit ELSE rs[last].res, self,
               Concat([t \in 1..last |->
                   <<Call(depth + 1, targets[t].node, targets[t].key, value_,
                          child_proof)>> \o rs[t].calls]))

RECURSIVE load_proof_at(_, _, _, _, _)

\* if proof.len() > 1: the descent on the node's data
descend(self, targets, value_, child_proof, depth) ==
    IF self.data.tag \notin {"Extension", "Branch"}
    THEN Return(Err("this should not happen in load_proof"), self, <<>>)
    ELSE collect(self, targets, value_, child_proof, depth,
                 [t \in 1..Len(targets) |->
                     load_proof_at(targets[t].node, targets[t].key, value_,
                                   child_proof, depth + 1)])

\* after_place handing down a long proof without its first two entries
after_place_skipping(self, check, key_, value_, proof_, depth) ==
    IF ~check.ok THEN Return(check, self, <<>>)
    ELSE IF Len(proof_) > 2
    THEN descend(self, Targets(self.data, key_, Tail(Tail(proof_))), value_,
                 Tail(Tail(proof_)), depth)
    ELSE IF Len(proof_) > 1
    THEN descend(self, Targets(self.data, key_, Tail(proof_)), value_,
                 Tail(proof_), depth)
    ELSE Return(Unit, self, <<>>)

\* after the entry is placed: check is the outcome of the checks on a Leaf
after_place(self, check, key_, value_, proof_, depth) ==
    IF ~check.ok THEN Return(check, self, <<>>)
    ELSE IF Len(proof_) > 1
    THEN descend(self, Targets(self.data, key_, Tail(proof_)), value_,
                 Tail(proof_), depth)
    ELSE Return(Unit, self, <<>>)

\* on_entry placing the entry only once the checks on a Leaf have passed
on_entry_checking_first(self, key_, value_, proof_, depth, val) ==
    IF ~val.ok THEN Return(val, self, <<>>)
    ELSE IF ~leaf_check(self.data = Unknown, val.val, key_, value_).ok
    THEN Return(leaf_check(self.data = Unknown, val.val, key_, value_), self, <<>>)
    ELSE after_place(place(self, val.val), Unit, key_, value_, proof_, depth)

\* after the hash check: val is the Result of NodeData::new(entry)
on_entry(self, key_, value_, proof_, depth, val) ==
    IF ~val.ok THEN Return(val, self, <<>>)
    ELSE after_place(place(self, val.val),
                     leaf_check(self.data = Unknown, val.val, key_, value_),
                     key_, value_, proof_, depth)

\* load_proof_at decoding the entry before it compares the hashes
load_proof_at_decoding_first(self, key_, value_, proof_, depth) ==
    IF Len(proof_) = 0 THEN empty_proof(self, value_)
    ELSE IF ~NodeData_new(proof_[1]).ok
    THEN Return(NodeData_new(proof_[1]), self, <<>>)
    ELSE IF keccak256(proof_[1]) # self.hash
    THEN Return(Err("proof entry hash does not match the node root"), self, <<>>)
    ELSE on_entry(self, key_, value_, proof_, depth, NodeData_new(proof_[1]))

\* Node::load_proof at the nesting depth depth
load_proof_at(self, key_, value_, proof_, depth) ==
    IF Len(proof_) = 0 THEN empty_proof(self, value_)
    ELSE IF keccak256(proof_[1]) # self.hash
    THEN Return(Err("proof entry hash does not match the node root"), self, <<>>)
    ELSE on_entry(self, key_, value_, proof_, depth, NodeData_new(proof_[1]))

\* the call of a caller
load_proof(self, key_, value_, proof_) == load_proof_at(self, key_, value_, proof_, 0)

\* Node::get_key
get_key(self, k) == IF self.should_hash_keys THEN keccak256(k) ELSE k

(***************************************************************************)
(* The inputs of the decoder.                                              *)
(***************************************************************************)
\* item data of the lengths around the length of a hash
ItemLens == {0, 1, 31, 32, 33}

ItemData == {Rep(n, 171) : n \in ItemLens} \cup {V1, EMPTY_VALUE}

Paths == {Prefixed(f, p) : f \in 0..3, p \in {K1, K2, <<1, 35>>}}

TwoItemInputs == {EncodeList(<<p, d>>) : p \in Paths, d \in ItemData}

\* 17 + k items, all empty but one
BranchInputs ==
    {EncodeList([i \in 1..n |-> IF i = j THEN d ELSE <<>>]) :
        n \in {17, 17 + ExtraItems}, j \in 1..17, d \in ItemData}

\* n empty items.  Two items are left to TwoItemInputs: their first item is a
\* prefixed path, and the codec's answer to an empty one is not in the source
CountInputs ==
    {EncodeList([i \in 1..n |-> <<>>]) : n \in (0..(17 + ExtraItems)) \ {2}}

\* no list, a truncated list, a list inside a list, a list followed by an
\* item that does not parse
OddInputs ==
    {<<>>, <<128>>, <<8>>, <<130, 32, 41>>, <<196, 32, 41>>,
     <<195, 193, 50, 8>>, <<196, 130, 32, 41, 8, 131>>,
     SubSeq(EntryB, 1, Len(EntryB) - 1), EntryB \o <<8>>}

DecodeInputs ==
    TwoItemInputs \cup BranchInputs \cup CountInputs \cup OddInputs
        \cup Entries \cup {FixtureLeaf, FixtureBranch, FixtureLeaf2}

(***************************************************************************)
(* The verifier: a Node is built on a root, and load_proof is called on it *)
(* any number of times, with any key, value and proof.  While the caller   *)
(* holds the Result of a call, the state keeps the arguments of the call,  *)
(* the node as it was before the call (pre) and the recursive calls made   *)
(* (trace); Forget is the caller letting go of the Result before its next  *)
(* call (the arguments were moved into the call and are gone with it).     *)
(***************************************************************************)
Roots == {keccak256(e) : e \in Entries} \cup {EMPTY_ROOT}

Proofs == UNION {[1..n -> Entries] : n \in 0..MaxProofLen}

NoCall == [ok |-> FALSE, err |-> "no call"]

Init ==
    /\ root_hash \in Roots
    /\ node = Node_new(root_hash)
    /\ key = <<>>
    /\ value = <<>>
    /\ proof = <<>>
    /\ result = NoCall
    /\ pre = node
    /\ trace = <<>>
    /\ raw = <<>>
    /\ decoded = NoCall

LoadProof(k, v, p) ==
    /\ result = NoCall
    /\ LET r == load_proof(node, k, v, p)
       IN  /\ node' = r.node
           /\ key' = k
           /\ value' = v
           /\ proof' = p
           /\ result' = r.res
           /\ pre' = node
           /\ trace' = r.calls
    /\ UNCHANGED <<root_hash, raw, decoded>>

Forget ==
    /\ result # NoCall
    /\ key' = <<>>
    /\ value' = <<>>
    /\ proof' = <<>>
    /\ result' = NoCall
    /\ pre' = node
    /\ trace' = <<>>
    /\ UNCHANGED <<root_hash, node, raw, decoded>>

Next ==
    \/ /\ result = NoCall
       /\ \E k \in Keys, v \in Values, p \in Proofs : LoadProof(k, v, p)
    \/ Forget

Spec == Init /\ [][Next]_vars

\* a call has returned and the caller holds its Result
Called == result # NoCall

\* the stand-in digest tells the entries, and the empty root, apart
DigestsDistinct ==
    /\ \A e1, e2 \in Entries : keccak256(e1) = keccak256(e2) => e1 = e2
    /\ \A e \in Entries : keccak256(e) # EMPTY_ROOT

(***************************************************************************)
(* The decoder alone: an input is drawn and NodeData::new applied to it.   *)
(***************************************************************************)
InitDecode ==
    /\ root_hash = EMPTY_ROOT
    /\ node = Node_new(EMPTY_ROOT)
    /\ key = <<>>
    /\ value = <<>>
    /\ proof = <<>>
    /\ result = NoCall
    /\ pre = Unknown
    /\ trace = <<>>
    /\ raw \in DecodeInputs
    /\ decoded = NoCall

Decode ==
    /\ decoded = NoCall
    /\ decoded' = NodeData_new(raw)
    /\ UNCHANGED <<root_hash, node, key, value, proof, result, pre, trace, raw>>

NextDecode == Decode

SpecDecode == InitDecode /\ [][NextDecode]_vars

\* the decoder gives what the tests of the source assert
FixturesDecode ==
    /\ NodeData_new(FixtureLeaf) = Ok(Leaf(FixtureLeafKey, <<8>>))
    /\ NodeData_new(FixtureLeaf2) = Ok(Leaf(FixtureLeaf2Key, <<9>>))
    /\ NodeData_new(FixtureBranch) =
           Ok(Branch([i \in 1..17 |->
               IF i = 1 THEN Node_new(FixtureSlot0)
               ELSE IF i = 13 THEN Node_new(FixtureSlot12) ELSE None]))
    /\ EncodeList(<<<<32>> \o FixtureLeafKey, <<8>>>>) = FixtureLeaf

(***************************************************************************)
(* What the claims speak of.                                               *)
(***************************************************************************)
\* the node the last call ran on was as Node::new built it
Fresh == pre = Node_new(root_hash)

\* the decoding of entry i of the proof of the last call
Entry(i) == NodeData_new(proof[i])

\* entry i of the proof does not hash to the pointer the entry before it
\* commits to: the hash of the node for the first entry, the child of an
\* Extension, one of the populated slots of a Branch
Uncommitted(i) ==
    IF i = 1 THEN keccak256(proof[1]) # pre.hash
    ELSE /\ Entry(i - 1).ok
         /\ \/ /\ Entry(i - 1).val.tag = "Extension"
               /\ Entry(i - 1).val.node.hash # keccak256(proof[i])
            \/ /\ Entry(i - 1).val.tag = "Branch"
               /\ \A s \in 1..17 :
                      \/ Entry(i - 1).val.arr[s] = None
                      \/ Entry(i - 1).val.arr[s].hash # keccak256(proof[i])

\* the slots of the branch arr that are populated with the hash h
SlotsWith(arr, h) == {s \in 1..17 : arr[s] # None /\ arr[s].hash = h}

\* every child node inside the data d is Unknown
ChildrenUnknown(d) ==
    /\ d.tag = "Extension" => d.node.data = Unknown
    /\ d.tag = "Branch" => \A s \in 1..17 : d.arr[s] # None => d.arr[s].data = Unknown

(***************************************************************************)
(* C1.  End-to-end leaf attestation: when load_proof on a freshly built    *)
(* node returns Ok for a proof of one entry or more whose last entry       *)
(* decodes to a Leaf, the key and the value of that Leaf are the key and   *)
(* the value of the caller.  The code does not keep this.                  *)
(***************************************************************************)
C1_LeafAttestation ==
    (/\ Called
     /\ Fresh
     /\ Len(proof) >= 1
     /\ result.ok
     /\ Entry(Len(proof)).ok
     /\ Entry(Len(proof)).val.tag = "Leaf")
        => /\ Entry(Len(proof)).val.key = key
           /\ Entry(Len(proof)).val.value = value

(***************************************************************************)
(* C2.  Hash-chain soundness: when some entry of the proof does not hash   *)
(* to the pointer the entry before it commits to (the hash of the node for *)
(* the first entry), load_proof returns an error.  The code does not keep  *)
(* this.                                                                   *)
(***************************************************************************)
C2_HashChain ==
    (Called /\ \E i \in 1..Len(proof) : Uncommitted(i)) => ~result.ok

(***************************************************************************)
(* C3.  Leaf fidelity: for a proof of one entry that hashes to the hash of *)
(* the node and decodes to a Leaf, load_proof returns Ok exactly when the  *)
(* key and the value of the caller are those of the Leaf, the key being    *)
(* checked first, and on success the data of the node is that Leaf.  The   *)
(* code does not keep this.                                                *)
(***************************************************************************)
C3_LeafFidelity ==
    (/\ Called
     /\ Len(proof) = 1
     /\ keccak256(proof[1]) = pre.hash
     /\ Entry(1).ok
     /\ Entry(1).val.tag = "Leaf")
        => /\ result.ok <=> (Entry(1).val.key = key /\ Entry(1).val.value = value)
           /\ Entry(1).val.key # key
                  => result = Err("key in leaf does not match input")
           /\ (Entry(1).val.key = key /\ Entry(1).val.value # value)
                  => result = Err("value in leaf does not match input")
           /\ result.ok => node.data = Entry(1).val

(***************************************************************************)
(* C4.  Empty-root law: with an empty proof load_proof returns Ok exactly  *)
(* when the hash of the node is the empty root and the value is the single *)
(* zero byte; a hash that is not the empty root gives the missing-proof    *)
(* error whatever the value, the empty root with another value gives the   *)
(* value error; and the node is left as it was in all three cases.         *)
(***************************************************************************)
C4_EmptyRootLaw ==
    (Called /\ proof = <<>>)
        => /\ result.ok <=> (pre.hash = EMPTY_ROOT /\ value = EMPTY_VALUE)
           /\ pre.hash # EMPTY_ROOT
                  => result = Err("Root is not empty, hence some proof is needed")
           /\ (pre.hash = EMPTY_ROOT /\ value # EMPTY_VALUE)
                  => result = Err("Value should be empty, since root is empty")
           /\ node = pre
           /\ Fresh => node.data = Unknown

\* the empty proof of the empty trie was accepted
C4_Witness ==
    /\ Called
    /\ proof = <<>>
    /\ result.ok
    /\ pre.hash = EMPTY_ROOT
    /\ value = EMPTY_VALUE
    /\ node.data = Unknown

(***************************************************************************)
(* C5.  Branch selection: when the first entry hashes to the hash of the   *)
(* node and decodes to a Branch, and the hash of the second entry is the   *)
(* hash of exactly one populated slot, load_proof descends into that slot  *)
(* only, and its Result is the Result of load_proof with the same key and  *)
(* value and the rest of the proof on a fresh Node of that slot's hash.    *)
(***************************************************************************)
C5_BranchSelection ==
    (/\ Called
     /\ Len(proof) >= 2
     /\ keccak256(proof[1]) = pre.hash
     /\ Entry(1).ok
     /\ Entry(1).val.tag = "Branch"
     /\ Cardinality(SlotsWith(Entry(1).val.arr, keccak256(proof[2]))) = 1)
        => /\ result =
                  load_proof(Node_new(keccak256(proof[2])), key, value, Tail(proof)).res
           /\ Cardinality({c \in 1..Len(trace) : trace[c].depth = 1}) = 1
           /\ trace[1] = [depth |-> 1, hash |-> keccak256(proof[2]), key |-> key,
                          value |-> value, proof |-> Tail(proof)]

\* a proof went through a slot of a branch to the leaf of the caller, and
\* another one failed below the slot
C5_Witness ==
    /\ Called
    /\ Len(proof) = 2
    /\ keccak256(proof[1]) = pre.hash
    /\ Entry(1).ok
    /\ Entry(1).val.tag = "Branch"
    /\ SlotsWith(Entry(1).val.arr, keccak256(proof[2])) = {6}
    /\ result.ok
    /\ Len(trace) = 1

(***************************************************************************)
(* C6.  The retained effect is the first entry only: after load_proof on a *)
(* fresh node, with a proof whose first entry hashed to the hash of the    *)
(* node and decoded, the data of the node is NodeData::new of that entry,  *)
(* every child node in it Unknown, however deep the descent went.          *)
(***************************************************************************)
C6_FirstEntryOnly ==
    (/\ Called
     /\ Fresh
     /\ Len(proof) >= 1
     /\ keccak256(proof[1]) = pre.hash
     /\ Entry(1).ok)
        => /\ node.data = Entry(1).val
           /\ ChildrenUnknown(node.data)

\* a descent of three levels succeeded and filled its children on the way
C6_Witness ==
    /\ Called
    /\ Fresh
    /\ Len(proof) = 3
    /\ result.ok
    /\ Len(trace) = 2
    /\ trace[2].depth = 2
    /\ node.data.tag = "Branch"

(***************************************************************************)
(* C7.  Monotone fill: once the data of the node is Leaf, Extension or     *)
(* Branch, no call of load_proof changes it, whatever its arguments and    *)
(* its Result.                                                             *)
(***************************************************************************)
C7_MonotoneFill == [][node.data # Unknown => node'.data = node.data]_vars

\* a call on a node that was filled before ran on the entry of the node and
\* failed below it
C7_Witness ==
    /\ Called
    /\ pre.data # Unknown
    /\ Len(proof) >= 2
    /\ keccak256(proof[1]) = pre.hash
    /\ ~result.ok
    /\ node.data = pre.data

(***************************************************************************)
(* C8.  Hash immutability: after any sequence of load_proof calls the hash *)
(* of the node is the hash given to Node::new.                             *)
(***************************************************************************)
C8_HashImmutable == node.hash = root_hash /\ pre.hash = root_hash

\* a second call descended below the node, which keeps its hash
C8_Witness ==
    /\ Called
    /\ pre.data # Unknown
    /\ Len(trace) >= 1
    /\ result.ok
    /\ node.hash = root_hash

(***************************************************************************)
(* The decoder's claims, on the input raw and its decoding.                *)
(***************************************************************************)
Decoded == decoded # NoCall

\* the number of items NodeData::new counts in raw
Count == Len(Items(raw))

\* the data of item i (from 0) of raw
Item(i) == AtData(Items(raw), i)

\* the hex-prefix flags of item 0
Terminator == from_bytes_with_prefix(Item(0)).terminator

BarePath == without_prefix(from_bytes_with_prefix(Item(0)).key)

C10_ExactPointers ==
    Decoded
        => /\ (decoded.ok /\ decoded.val.tag = "Branch")
                  => \A i \in 0..16 :
                         /\ decoded.val.arr[i + 1] = None <=> Len(Item(i)) = 0
                         /\ decoded.val.arr[i + 1] = Node_new(Item(i))
                                <=> Len(Item(i)) = 32
           /\ (IsList(raw) /\ Count = 17)
                  => (decoded.ok <=> \A i \in 0..16 : Len(Item(i)) \in {0, 32})
           /\ (IsList(raw) /\ Count = 2 /\ ~Terminator)
                  => (decoded.ok <=> Len(Item(1)) = 32)
           /\ (decoded.ok /\ decoded.val.tag = "Extension")
                  => decoded.val.node.hash = Item(1)

\* a branch was decoded whose value slot alone is populated
C10_Witness ==
    /\ Decoded
    /\ decoded.ok
    /\ decoded.val.tag = "Branch"
    /\ decoded.val.arr[17] # None
    /\ Len(decoded.val.arr[17].hash) = 32
    /\ \A i \in 1..16 : decoded.val.arr[i] = None

\* the first entry of the proof of the last call hashes to the node the call
\* ran on and decodes to a node of one of the shapes
FirstEntryIs(shapes) ==
    /\ Len(proof) >= 1
    /\ keccak256(proof[1]) = pre.hash
    /\ Entry(1).ok
    /\ Entry(1).val.tag \in shapes

(***************************************************************************)
(* C11.  Extension descent keeps the caller's claim: when the first entry  *)
(* decodes to an Extension and more entries remain, load_proof recurses    *)
(* into the child of the Extension with the key and the value of the       *)
(* caller and the remaining proof.  The code does not keep this: it hands  *)
(* down the path of the Extension as the key.                              *)
(***************************************************************************)
C11_ExtensionKeepsClaim ==
    (/\ Called
     /\ Len(proof) > 1
     /\ FirstEntryIs({"Extension"}))
    => /\ trace # <<>>
       /\ trace[1] = Call(1, Entry(1).val.node, key, value, Tail(proof))

(***************************************************************************)
(* C12.  A failed proof stays invalid: when load_proof has returned an     *)
(* error on a node, the same call again on that node, as the first call    *)
(* left it, returns an error too.  The code does not keep this: the first  *)
(* call fills the node, and the checks on a Leaf are made on an Unknown    *)
(* node only.                                                              *)
(***************************************************************************)
C12_FailedStaysInvalid ==
    (Called /\ ~result.ok) => ~load_proof(node, key, value, proof).res.ok

(***************************************************************************)
(* C13.  Single-entry early stop: on a proof of exactly one entry that     *)
(* hashes to the hash of the node and decodes to a Branch or an Extension, *)
(* load_proof returns Ok whatever the key and the value are; it makes no   *)
(* recursive call and the node holds the decoded entry.                    *)
(***************************************************************************)
C13_SingleEntryStop ==
    (/\ Called
     /\ Len(proof) = 1
     /\ FirstEntryIs({"Branch", "Extension"}))
    => /\ result = Unit
       /\ trace = <<>>
       /\ node.data = Entry(1).val
       /\ \A k \in Keys, v \in Values : load_proof(pre, k, v, proof).res = Unit

\* an Extension alone is accepted for a key that is not its path
C13_Witness ==
    /\ Called
    /\ Len(proof) = 1
    /\ FirstEntryIs({"Extension"})
    /\ Entry(1).val.key # key
    /\ pre.data = Unknown
    /\ result = Unit

(***************************************************************************)
(* C14.  Hash check precedes decode and fill: on a proof of one entry or   *)
(* more whose first entry does not hash to the hash of the node,           *)
(* load_proof returns the hash-mismatch error, whether the entry decodes   *)
(* or not, makes no recursive call and leaves the node as it was.          *)
(***************************************************************************)
C14_HashCheckFirst ==
    (/\ Called
     /\ Len(proof) >= 1
     /\ keccak256(proof[1]) # pre.hash)
    => /\ result = Err("proof entry hash does not match the node root")
       /\ node = pre
       /\ trace = <<>>

\* the first entry is no RLP list and does not hash to the hash of the node
C14_Witness ==
    /\ Called
    /\ Len(proof) >= 1
    /\ keccak256(proof[1]) # pre.hash
    /\ Entry(1) = Err("RlpExpectedToBeList")
    /\ result = Err("proof entry hash does not match the node root")

\* a proof that goes on after a Leaf is never accepted, whatever the error
LeafContinuationFails ==
    (/\ Called
     /\ Len(proof) > 1
     /\ FirstEntryIs({"Leaf"}))
    => ~result.ok

(***************************************************************************)
(* C15.  A Leaf has no continuation: when the proof has more than one      *)
(* entry and the first entry decodes to a Leaf, load_proof returns the     *)
(* key-mismatch or the value-mismatch error if the Leaf does not match the *)
(* key and the value of the caller, and the error of the unexpected shape  *)
(* otherwise.  The code returns an error in each of these cases, but on a  *)
(* node that is already filled it is the error of the unexpected shape     *)
(* also when the Leaf does not match.                                      *)
(***************************************************************************)
C15_LeafNoContinuation ==
    (/\ Called
     /\ Len(proof) > 1
     /\ FirstEntryIs({"Leaf"}))
    => result = IF Entry(1).val.key # key
                THEN Err("key in leaf does not match input")
                ELSE IF Entry(1).val.value # value
                THEN Err("value in leaf does not match input")
                ELSE Err("this should not happen in load_proof")

(***************************************************************************)
(* C16.  Fill is decided by hash match and decode alone: after a call with *)
(* a proof of one entry or more on an Unknown node, the node is filled     *)
(* exactly when the first entry hashes to the hash of the node and         *)
(* decodes, whether the call returned Ok or an error; it then holds the    *)
(* decoded entry.                                                          *)
(***************************************************************************)
C16_FillByHashAndDecode ==
    (/\ Called
     /\ pre.data = Unknown
     /\ Len(proof) >= 1)
    => /\ node.data # Unknown <=> (keccak256(proof[1]) = pre.hash /\ Entry(1).ok)
       /\ node.data # Unknown => node.data = Entry(1).val

\* a call that failed below the first entry has filled the node
C16_Witness ==
    /\ Called
    /\ pre.data = Unknown
    /\ Len(proof) > 1
    /\ trace # <<>>
    /\ ~result.ok
    /\ node.data = Entry(1).val

\* the proof of the call that made the recursive call trace[i]: the proof of
\* the caller's call at depth 1, else that of the last call before it that is
\* one level up
CallerProof(i) ==
    IF trace[i].depth = 1 THEN proof
    ELSE LET up == {j \in 1..(i - 1) : trace[j].depth = trace[i].depth - 1}
         IN  trace[CHOOSE j \in up : \A l \in up : l <= j].proof

(***************************************************************************)
(* C17.  One entry per level: every recursive call of load_proof receives  *)
(* the proof of the call that made it without its first entry, and that    *)
(* proof is not empty; so the calls nest no deeper than the proof is long  *)
(* (the caller's call counted), and every call returns.                    *)
(***************************************************************************)
C17_OneEntryPerLevel ==
    Called =>
        \A i \in 1..Len(trace) :
            /\ trace[i].proof = Tail(CallerProof(i))
            /\ Len(trace[i].proof) = Len(proof) - trace[i].depth
            /\ trace[i].depth + 1 <= Len(proof)

\* a proof of three entries is followed down to its last entry
C17_Witness ==
    /\ Called
    /\ Len(proof) = 3
    /\ result = Unit
    /\ \E i \in 1..Len(trace) : trace[i].depth = 2 /\ trace[i].proof = <<proof[3]>>

RECURSIVE NodesOf(_)

\* the node n and every node inside its data
NodesOf(n) ==
    {n} \cup
    (IF n.data.tag = "Extension" THEN NodesOf(n.data.node)
     ELSE IF n.data.tag = "Branch"
     THEN UNION {NodesOf(n.data.arr[s]) : s \in {t \in 1..17 : n.data.arr[t] # None}}
     ELSE {})

(***************************************************************************)
(* C18.  Key-hashing flag is constant: the node and every node inside its  *)
(* data have should_hash_keys = true, so get_key(k) is keccak256(k) on     *)
(* each of them; and load_proof compares the key of a Leaf with the key    *)
(* of the caller as it was passed: a proof of one Leaf on an Unknown node  *)
(* is accepted exactly when the key and the value of the Leaf are the key  *)
(* and the value of the caller.                                            *)
(***************************************************************************)
C18_KeyHashingConstant ==
    /\ \A n \in NodesOf(node) :
           /\ n.should_hash_keys
           /\ \A k \in Keys : get_key(n, k) = keccak256(k)
    /\ (/\ Called
        /\ pre.data = Unknown
        /\ Len(proof) = 1
        /\ FirstEntryIs({"Leaf"}))
       => (result = Unit <=> (Entry(1).val.key = key /\ Entry(1).val.value = value))

\* the node holds a Branch with children that the decoder built
C18_Witness ==
    /\ Called
    /\ result = Unit
    /\ node.data.tag = "Branch"
    /\ Cardinality(NodesOf(node)) > 2

====
